---- MODULE Spec2Model ----
(***************************************************************************)
(* Model of the LebFix service-marketplace backend (backend/server.py).    *)
(*                                                                         *)
(* The document store is four collections, each a sequence of documents   *)
(* in insertion order.  No handler deletes a document, so the uuid4 "id"  *)
(* of a document is modelled by its position in its collection; find_one  *)
(* returns the first match in that order, and NULL (Python's None) when   *)
(* nothing matches.  Every handler is one atomic step: the request, its   *)
(* store reads and writes, and the response, which is kept in `last`.      *)
(* Amounts are whole numbers (25 stands for 25.0).                         *)
(***************************************************************************)
EXTENDS Integers, Sequences, FiniteSets, Bags, TLC

\* ---------------------------------------------------------------- bounds
NumEmails == 2
TokensPerEmail == 1
MaxCompanies == 1
MaxProviders == 2
MaxBookings == 1
MaxInflight == 2

\* ------------------------------------------------------- program constants
NULL == 0
DefaultHourlyRate == 25
DefaultEmergencyRate == 50
ListLimit == 100

CUSTOMER == "customer"
FREELANCE_FIXER == "freelance_fixer"
EMPLOYEE_FIXER == "employee_fixer"
COMPANY == "company"
UserRole == {CUSTOMER, FREELANCE_FIXER, EMPLOYEE_FIXER, COMPANY}

PENDING == "pending"
CONFIRMED == "confirmed"
IN_PROGRESS == "in_progress"
COMPLETED == "completed"
CANCELLED == "cancelled"
BookingStatus == {PENDING, CONFIRMED, IN_PROGRESS, COMPLETED, CANCELLED}

\* ------------------------------------------------------------ input sets
Emails == 1..NumEmails
\* The session tokens the auth provider can issue for an email: distinct
\* accounts never get the same token.  Token 0 is one it never issued.
SessionTokens(email) == {(g - 1) * NumEmails + email : g \in 1..TokensPerEmail}
Tokens == 0..(NumEmails * TokensPerEmail)
\* add_employee's rates and categories, and update_provider_profile's
\* categories and optional rates
EmployeeRates == {<<30, 60>>}
EmployeeCategories == {{"plumbing"}}
ProfileUpdates == {<<{}, NULL, NULL>>, <<{}, 40, 80>>}
ProviderIds == 1..(MaxProviders + 1)
BookingIds == 1..(MaxBookings + 1)

\* The four collections, the last response, and the session verifications
\* that have read the users collection and not yet written to it
VARIABLES users, companies, service_providers, bookings, last, inflight

vars == <<users, companies, service_providers, bookings, last, inflight>>

\* ------------------------------------------------------- store primitives
\* find_one({field: value}): the first matching document, or None
FindOne(coll, field, value) ==
    IF \E i \in 1..Len(coll) : coll[i][field] = value
    THEN CHOOSE i \in 1..Len(coll) :
            coll[i][field] = value /\ \A j \in 1..(i - 1) : coll[j][field] # value
    ELSE NULL

\* A filter document is <<>> (matches all) or <<field, value>>
Matches(doc, query) == query = <<>> \/ doc[query[1]] = query[2]

\* find(query): the ids (positions) of the matching documents
Find(coll, query) == {i \in 1..Len(coll) : Matches(coll[i], query)}

\* cursor.to_list(n): the first n matches in store order
ToList(S, n) == {i \in S : Cardinality({j \in S : j <= i}) <= n}

\* find_one({"id": id}): the id of a document is its position
FindById(coll, id) == IF id \in 1..Len(coll) THEN id ELSE NULL

\* update_one with $set on the one document with the given id
SetField(coll, id, f, v) == [coll EXCEPT ![id] = [@ EXCEPT ![f] = v]]

\* The elements of a list
Range(list) == {list[i] : i \in 1..Len(list)}

\* $push: the value appended, present or not
AddToSet_Push(list, value) == Append(list, value)

\* update_one with $addToSet: the value appended to the list unless present
AddToSet(list, value) ==
    IF value \in Range(list) THEN list ELSE Append(list, value)

\* ----------------------------------------------------------- the response
\* op, the bearer token of the request (NULL where the route takes none),
\* the caller get_current_user resolved, the outcome ("ok" or the HTTP
\* error status), the id the request named (the booking of a status update,
\* the provider of a new booking, the user add_employee found by email) or
\* answered (the caller's company) and
\* the ids a listing answered
Response(op, token, user, res, target, listed) ==
    [op |-> op, token |-> token, user |-> user, res |-> res,
     target |-> target, listed |-> listed]

\* The lookup with any token taken for a valid one: the first user
get_current_user_NoCheck(token) ==
    IF Len(users) > 0 THEN 1 ELSE NULL

\* get_current_user: the user holding the bearer token, or None (-> 401)
get_current_user(token) ==
    FindOne(users, "session_token", token)

Unauthorized(op, token) ==
    /\ get_current_user(token) = NULL
    /\ last' = Response(op, token, NULL, "401", NULL, {})
    /\ UNCHANGED <<users, companies, service_providers, bookings>>

Init ==
    /\ users = <<>>
    /\ companies = <<>>
    /\ service_providers = <<>>
    /\ bookings = <<>>
    /\ last = Response("init", NULL, NULL, "ok", NULL, {})
    /\ inflight = EmptyBag

\* ------------------------------------------------------------ documents
\* The Company document with its owner left unset
Company_NoOwner(owner_id) == [owner_id |-> NULL, employees |-> <<>>]

\* Company(owner_id=...): employees defaults to the empty list (name, email,
\* phone and address are contact strings no handler reads back)
Company(owner_id) == [owner_id |-> owner_id, employees |-> <<>>]

\* ServiceProvider(user_id=..., company_id=..., service_categories=...,
\* hourly_rate=..., emergency_rate=...)
ServiceProvider(user_id, company_id, service_categories, hourly_rate, emergency_rate) ==
    [user_id |-> user_id, company_id |-> company_id,
     service_categories |-> service_categories,
     hourly_rate |-> hourly_rate, emergency_rate |-> emergency_rate]

\* ------------------------------------------------------------- handlers
\* POST /auth/session.  The auth provider either fails (any exception in
\* the handler, its own 401 included, leaves as a 500) or answers with the
\* account's email and a session token.  A first-time email is the next
\* unused one: emails are opaque, so the order they register in is fixed.
verify_session(email, session_token, upstream_ok) ==
    LET existing_user == FindOne(users, "email", email)
    IN  IF ~upstream_ok
        THEN /\ last' = Response("verify_session", NULL, NULL, "500", NULL, {})
             /\ UNCHANGED <<users, companies, service_providers, bookings>>
        ELSE /\ session_token \in SessionTokens(email)
             /\ IF existing_user # NULL
                THEN /\ users' = SetField(users, existing_user,
                                          "session_token", session_token)
                     /\ last' = Response("verify_session", NULL, existing_user,
                                         "ok", NULL, {})
                ELSE /\ email = Len(users) + 1
                     /\ users' = Append(users,
                            [email |-> email, role |-> CUSTOMER,
                             company_id |-> NULL,
                             session_token |-> session_token])
                     /\ last' = Response("verify_session", NULL, Len(users) + 1,
                                         "ok", NULL, {})
             /\ UNCHANGED <<companies, service_providers, bookings>>

\* POST /auth/session as the event loop runs it: the handler awaits the
\* store after its find_one, so other requests run between its lookup and
\* its write.  First step: the upstream call and the lookup by email.
verify_session_lookup(email, session_token, upstream_ok) ==
    LET existing_user == FindOne(users, "email", email)
        known(e) == \/ FindOne(users, "email", e) # NULL
                    \/ \E r \in BagToSet(inflight) : r.email = e
    IN  IF ~upstream_ok
        THEN /\ last' = Response("verify_session", NULL, NULL, "500", NULL, {})
             /\ UNCHANGED <<users, companies, service_providers, bookings,
                            inflight>>
        ELSE /\ session_token \in SessionTokens(email)
             /\ BagCardinality(inflight) < MaxInflight
             /\ \A e \in 1..(email - 1) : known(e)
             /\ inflight' = inflight (+) SetToBag({
                    [email |-> email, session_token |-> session_token,
                     existing_user |-> existing_user]})
             /\ UNCHANGED <<users, companies, service_providers, bookings,
                            last>>

\* Second step: update_one by email when the lookup found a user, insert_one
\* of a new customer when it found none; then the response
verify_session_write(request) ==
    /\ BagIn(request, inflight)
    /\ inflight' = inflight (-) SetToBag({request})
    /\ IF request.existing_user # NULL
       THEN /\ users' = SetField(users, FindOne(users, "email", request.email),
                                 "session_token", request.session_token)
            /\ last' = Response("verify_session", NULL, request.existing_user,
                                "ok", NULL, {})
       ELSE /\ users' = Append(users,
                   [email |-> request.email, role |-> CUSTOMER,
                    company_id |-> NULL,
                    session_token |-> request.session_token])
            /\ last' = Response("verify_session", NULL, Len(users) + 1,
                                "ok", NULL, {})
    /\ UNCHANGED <<companies, service_providers, bookings>>

\* POST /auth/complete-profile (phone and address are contact strings that
\* no other handler reads; they are left out of the user document)
complete_profile(token, role) ==
    LET current_user == get_current_user(token)
    IN  \/ Unauthorized("complete_profile", token)
        \/ /\ current_user # NULL
           /\ users' = SetField(users, current_user, "role", role)
           /\ IF role = COMPANY
              THEN /\ Len(companies) < MaxCompanies
                   /\ companies' = Append(companies, Company(current_user))
                   /\ UNCHANGED service_providers
              ELSE IF role = FREELANCE_FIXER
              THEN /\ Len(service_providers) < MaxProviders
                   /\ service_providers' = Append(service_providers,
                          ServiceProvider(current_user, NULL, {},
                              DefaultHourlyRate, DefaultEmergencyRate))
                   /\ UNCHANGED companies
              ELSE UNCHANGED <<companies, service_providers>>
           /\ last' = Response("complete_profile", token, current_user, "ok", NULL, {})
           /\ UNCHANGED bookings

\* GET /users/me
get_current_user_info(token) ==
    LET current_user == get_current_user(token)
    IN  \/ Unauthorized("get_current_user_info", token)
        \/ /\ current_user # NULL
           /\ last' = Response("get_current_user_info", token, current_user,
                               "ok", NULL, {})
           /\ UNCHANGED <<users, companies, service_providers, bookings>>

\* POST /providers/profile (description and availability are display
\* fields; the categories and the rates are modelled)
update_provider_profile(token, service_categories, hourly_rate, emergency_rate) ==
    LET current_user == get_current_user(token)
        provider == FindOne(service_providers, "user_id", current_user)
        with_categories ==
            SetField(service_providers, provider, "service_categories",
                     service_categories)
        with_hourly ==
            IF hourly_rate # NULL
            THEN SetField(with_categories, provider, "hourly_rate", hourly_rate)
            ELSE with_categories
        with_rates ==
            IF emergency_rate # NULL
            THEN SetField(with_hourly, provider, "emergency_rate", emergency_rate)
            ELSE with_hourly
    IN  \/ Unauthorized("update_provider_profile", token)
        \/ /\ current_user # NULL
           /\ UNCHANGED <<users, companies, bookings>>
           /\ IF users[current_user].role \notin {FREELANCE_FIXER, EMPLOYEE_FIXER}
              THEN /\ last' = Response("update_provider_profile", token, current_user,
                                       "403", NULL, {})
                   /\ UNCHANGED service_providers
              ELSE IF provider = NULL
              THEN /\ last' = Response("update_provider_profile", token, current_user,
                                       "404", NULL, {})
                   /\ UNCHANGED service_providers
              ELSE /\ service_providers' =
                          IF users[current_user].role = FREELANCE_FIXER
                          THEN with_rates ELSE with_categories
                   /\ last' = Response("update_provider_profile", token, current_user,
                                       "ok", NULL, {})

\* GET /companies/my-company: the caller's company and the users on its
\* employees list
get_my_company(token) ==
    LET current_user == get_current_user(token)
        company == FindOne(companies, "owner_id", current_user)
    IN  \/ Unauthorized("get_my_company", token)
        \/ /\ current_user # NULL
           /\ UNCHANGED <<users, companies, service_providers, bookings>>
           /\ IF users[current_user].role # COMPANY
              THEN last' = Response("get_my_company", token, current_user,
                                    "403", NULL, {})
              ELSE IF company = NULL
              THEN last' = Response("get_my_company", token, current_user,
                                    "404", NULL, {})
              ELSE last' = Response("get_my_company", token, current_user,
                         "ok", company,
                         ToList({u \in 1..Len(users) :
                                    u \in Range(companies[company].employees)},
                                ListLimit))

\* POST /companies/add-employee
add_employee(token, employee_email, hourly_rate, emergency_rate, service_categories) ==
    LET current_user == get_current_user(token)
        company == FindOne(companies, "owner_id", current_user)
        employee == FindOne(users, "email", employee_email)
    IN  \/ Unauthorized("add_employee", token)
        \/ /\ current_user # NULL
           /\ IF users[current_user].role # COMPANY
              THEN /\ last' = Response("add_employee", token, current_user, "403", NULL, {})
                   /\ UNCHANGED <<users, companies, service_providers>>
              ELSE IF company = NULL \/ employee = NULL
              THEN /\ last' = Response("add_employee", token, current_user, "404", NULL, {})
                   /\ UNCHANGED <<users, companies, service_providers>>
              ELSE /\ Len(service_providers) < MaxProviders
                   /\ users' = SetField(SetField(users, employee, "role", EMPLOYEE_FIXER),
                                        employee, "company_id", company)
                   /\ service_providers' = Append(service_providers,
                          ServiceProvider(employee, company,
                              service_categories, hourly_rate,
                              emergency_rate))
                   /\ companies' = SetField(companies, company, "employees",
                          AddToSet(companies[company].employees, employee))
                   /\ last' = Response("add_employee", token, current_user,
                                       "ok", employee, {})
           /\ UNCHANGED bookings

\* dict.get(key, default): the default only when the key is absent
DictGet(doc, key, default) == IF key \in DOMAIN doc THEN doc[key] ELSE default

\* The price with the emergency flag ignored
BookingPrice_AlwaysHourly(provider, emergency) ==
    DictGet(provider, "hourly_rate", DefaultHourlyRate)

\* create_booking's price: the hourly rate, or the emergency rate when the
\* booking is an emergency
BookingPrice(provider, emergency) ==
    IF emergency
    THEN DictGet(provider, "emergency_rate", DefaultEmergencyRate)
    ELSE DictGet(provider, "hourly_rate", DefaultHourlyRate)

\* The Booking document without the provider's company_id
NewBooking_NoCompany(customer, provider_id, emergency) ==
    [customer_id |-> customer,
     provider_id |-> provider_id,
     company_id  |-> NULL,
     status      |-> PENDING,
     price       |-> BookingPrice(service_providers[provider_id], emergency),
     emergency   |-> emergency]

\* The Booking document with the caller's id taken for the provider's
NewBooking_ProviderAsCustomer(customer, provider_id, emergency) ==
    [customer_id |-> service_providers[provider_id].user_id,
     provider_id |-> provider_id,
     company_id  |-> DictGet(service_providers[provider_id], "company_id", NULL),
     status      |-> PENDING,
     price       |-> BookingPrice(service_providers[provider_id], emergency),
     emergency   |-> emergency]

\* The Booking document create_booking builds (status defaults to pending)
NewBooking(customer, provider_id, emergency) ==
    [customer_id |-> customer,
     provider_id |-> provider_id,
     company_id  |-> DictGet(service_providers[provider_id], "company_id", NULL),
     status      |-> PENDING,
     price       |-> BookingPrice(service_providers[provider_id], emergency),
     emergency   |-> emergency]

\* POST /bookings
create_booking(token, provider_id, emergency) ==
    LET current_user == get_current_user(token)
        provider == FindById(service_providers, provider_id)
    IN  \/ Unauthorized("create_booking", token)
        \/ /\ current_user # NULL
           /\ UNCHANGED <<users, companies, service_providers>>
           /\ IF users[current_user].role # CUSTOMER
              THEN /\ last' = Response("create_booking", token, current_user, "403",
                                       provider_id, {})
                   /\ UNCHANGED bookings
              ELSE IF provider = NULL
              THEN /\ last' = Response("create_booking", token, current_user, "404",
                                       provider_id, {})
                   /\ UNCHANGED bookings
              ELSE /\ Len(bookings) < MaxBookings
                   /\ bookings' = Append(bookings,
                          NewBooking(current_user, provider_id, emergency))
                   /\ last' = Response("create_booking", token, current_user, "ok",
                                       provider_id, {})

\* The filter get_bookings builds for the caller; with no provider or
\* company document for the caller the filter stays {}
BookingsQuery(current_user) ==
    LET role == users[current_user].role
        provider == FindOne(service_providers, "user_id", current_user)
        company == FindOne(companies, "owner_id", current_user)
    IN  IF role = CUSTOMER THEN <<"customer_id", current_user>>
        ELSE IF role \in {FREELANCE_FIXER, EMPLOYEE_FIXER}
        THEN (IF provider # NULL THEN <<"provider_id", provider>> ELSE <<>>)
        ELSE IF role = COMPANY
        THEN (IF company # NULL THEN <<"company_id", company>> ELSE <<>>)
        ELSE <<>>

\* The booking ids GET /bookings answers for a user (enrichment joins the
\* customer, provider and provider's user onto each; it selects nothing)
ListFor(current_user) ==
    ToList(Find(bookings, BookingsQuery(current_user)), ListLimit)

\* GET /bookings
get_bookings(token) ==
    LET current_user == get_current_user(token)
    IN  \/ Unauthorized("get_bookings", token)
        \/ /\ current_user # NULL
           /\ last' = Response("get_bookings", token, current_user, "ok", NULL,
                               ListFor(current_user))
           /\ UNCHANGED <<users, companies, service_providers, bookings>>

\* The check without its customer branch
StatusUpdateForbidden_NoCustomerCheck(current_user, booking) ==
    LET role == users[current_user].role
        provider == FindOne(service_providers, "user_id", current_user)
    IN  role \in {FREELANCE_FIXER, EMPLOYEE_FIXER}
           /\ (provider = NULL \/ booking.provider_id # provider)

\* The check with a fixer passing as soon as a provider document is found
StatusUpdateForbidden_AnyProvider(current_user, booking) ==
    LET role == users[current_user].role
        provider == FindOne(service_providers, "user_id", current_user)
    IN  IF role = CUSTOMER /\ booking.customer_id # current_user THEN TRUE
        ELSE IF role \in {FREELANCE_FIXER, EMPLOYEE_FIXER}
        THEN provider = NULL
        ELSE FALSE

\* update_booking_status's authorization check: TRUE when it raises 403
StatusUpdateForbidden(current_user, booking) ==
    LET role == users[current_user].role
        provider == FindOne(service_providers, "user_id", current_user)
    IN  IF role = CUSTOMER /\ booking.customer_id # current_user THEN TRUE
        ELSE IF role \in {FREELANCE_FIXER, EMPLOYEE_FIXER}
        THEN provider = NULL \/ booking.provider_id # provider
        ELSE FALSE

\* The booking rebuilt around the new status, its price left to default
StatusSet_Rebuilt(booking, status) ==
    [booking EXCEPT !.status = status, !.price = NULL]

\* The booking after $set {status, updated_at}
StatusSet(booking, status) == [booking EXCEPT !.status = status]

\* PUT /bookings/{booking_id}/status (updated_at is a timestamp, not modelled)
update_booking_status(token, booking_id, status) ==
    LET current_user == get_current_user(token)
        booking == FindById(bookings, booking_id)
    IN  \/ Unauthorized("update_booking_status", token)
        \/ /\ current_user # NULL
           /\ UNCHANGED <<users, companies, service_providers>>
           /\ IF booking = NULL
              THEN /\ last' = Response("update_booking_status", token, current_user,
                                       "404", booking_id, {})
                   /\ UNCHANGED bookings
              ELSE IF StatusUpdateForbidden(current_user, bookings[booking])
              THEN /\ last' = Response("update_booking_status", token, current_user,
                                       "403", booking_id, {})
                   /\ UNCHANGED bookings
              ELSE /\ bookings' = [bookings EXCEPT
                          ![booking] = StatusSet(@, status)]
                   /\ last' = Response("update_booking_status", token, current_user,
                                       "ok", booking_id, {})

\* One request to any handler, its inputs drawn from the given sets
Request(roles, statuses, emergencies, profile_updates) ==
    \/ \E e \in Emails, t \in Tokens, ok \in BOOLEAN : verify_session(e, t, ok)
    \/ \E t \in Tokens, r \in roles : complete_profile(t, r)
    \/ \E t \in Tokens : get_current_user_info(t)
    \/ \E t \in Tokens : get_my_company(t)
    \/ \E t \in Tokens, r \in profile_updates :
          update_provider_profile(t, r[1], r[2], r[3])
    \/ \E t \in Tokens, m \in Emails, r \in EmployeeRates,
          c \in EmployeeCategories :
          add_employee(t, m, r[1], r[2], c)
    \/ \E t \in Tokens, p \in ProviderIds, e \in emergencies :
          create_booking(t, p, e)
    \/ \E t \in Tokens : get_bookings(t)
    \/ \E t \in Tokens, b \in BookingIds, s \in statuses :
          update_booking_status(t, b, s)

\* Accounts, roles, listings and status updates: every role, ordinary
\* bookings set to pending, confirmed or completed, rates as first set,
\* provider profiles updated without rates
Next ==
    /\ Request(UserRole, {PENDING, CONFIRMED, COMPLETED}, {FALSE},
               {<<{}, NULL, NULL>>})
    /\ UNCHANGED inflight

Spec == Init /\ [][Next]_vars

\* Pricing: ordinary and emergency bookings, freelancers changing their
\* rates, employees only through add_employee, bookings being confirmed
NextPricing ==
    /\ Request({CUSTOMER, FREELANCE_FIXER, COMPANY}, {CONFIRMED}, BOOLEAN,
               ProfileUpdates)
    /\ UNCHANGED inflight

SpecPricing == Init /\ [][NextPricing]_vars

\* Accounts under concurrent sign-in: session verifications interleave with
\* each other and with the handlers that write to users
NextSessions ==
    \/ \E e \in Emails, t \in Tokens, ok \in BOOLEAN :
          verify_session_lookup(e, t, ok)
    \/ \E r \in BagToSet(inflight) : verify_session_write(r)
    \/ /\ \E t \in Tokens, r \in UserRole : complete_profile(t, r)
       /\ UNCHANGED inflight
    \/ /\ \E t \in Tokens, m \in Emails, r \in EmployeeRates,
             c \in EmployeeCategories :
             add_employee(t, m, r[1], r[2], c)
       /\ UNCHANGED inflight

SpecSessions == Init /\ [][NextSessions]_vars

\* ------------------------------------------------------------ properties
IsFixer(u) == users[u].role \in {FREELANCE_FIXER, EMPLOYEE_FIXER}

\* The user ids that own the provider document p
OwnsProvider(u, p) ==
    p \in 1..Len(service_providers) /\ service_providers[p].user_id = u

StatusUpdated == last.op = "update_booking_status" /\ last.res = "ok"

\* C1: a booking's status is changed by update_booking_status only when
\* the requester is the booking's customer or the user of the booking's
\* provider (so never when the requester is a company user who is neither).
C1_OnlyCustomerOrProviderUpdates ==
    StatusUpdated =>
        \/ bookings[last.target].customer_id = last.user
        \/ OwnsProvider(last.user, bookings[last.target].provider_id)

\* C2: when a customer who is not a booking's customer calls
\* update_booking_status on it, with any status, the answer is 403 and the
\* bookings stay as they were.
C2_OtherCustomerForbidden ==
    [][( /\ last'.op = "update_booking_status"
         /\ last'.user # NULL
         /\ last'.target \in 1..Len(bookings)
         /\ users[last'.user].role = CUSTOMER
         /\ bookings[last'.target].customer_id # last'.user )
       => (last'.res = "403" /\ bookings' = bookings)]_vars

C2_Witness ==
    /\ last.op = "update_booking_status"
    /\ last.res = "403"
    /\ users[last.user].role = CUSTOMER
    /\ bookings[last.target].customer_id # last.user

\* C3: when a freelance or employee fixer who has no provider document,
\* or none that the booking is assigned to, calls update_booking_status on
\* a booking, with any status, the answer is 403 and the bookings stay as
\* they were.
C3_OtherProviderForbidden ==
    [][( /\ last'.op = "update_booking_status"
         /\ last'.user # NULL
         /\ last'.target \in 1..Len(bookings)
         /\ IsFixer(last'.user)
         /\ ~OwnsProvider(last'.user, bookings[last'.target].provider_id) )
       => (last'.res = "403" /\ bookings' = bookings)]_vars

\* A fixer with a provider document of their own is refused on a booking
\* assigned to another provider
C3_Witness ==
    /\ last.op = "update_booking_status"
    /\ last.res = "403"
    /\ IsFixer(last.user)
    /\ \E p \in 1..Len(service_providers) : OwnsProvider(last.user, p)
    /\ ~OwnsProvider(last.user, bookings[last.target].provider_id)

Listed == last.op = "get_bookings" /\ last.res = "ok"

\* A booking belongs to the user as its customer, as the user of its
\* provider, or as the owner of its company.  The role scopes (customer_id
\* for a customer, provider_id for a fixer, company_id for a company user)
\* each select related bookings only.
Related(u, b) ==
    \/ b.customer_id = u
    \/ OwnsProvider(u, b.provider_id)
    \/ /\ b.company_id \in 1..Len(companies)
       /\ companies[b.company_id].owner_id = u

\* C4: every booking get_bookings answers is within the caller's role
\* scope, so no user ever receives a booking of an unrelated customer,
\* provider or company.
C4_ListedWithinScope ==
    Listed => \A b \in last.listed : Related(last.user, bookings[b])

\* The bookings whose provider is an employee-provider of company c
EmployeeBookings(c) ==
    {b \in 1..Len(bookings) :
        service_providers[bookings[b].provider_id].company_id = c}

C6_ProviderUserUpdateSucceeds ==
    ( /\ last.op = "update_booking_status"
      /\ last.user # NULL
      /\ last.target \in 1..Len(bookings)
      /\ IsFixer(last.user)
      /\ OwnsProvider(last.user, bookings[last.target].provider_id) )
    => last.res = "ok"

Created == last.op = "create_booking" /\ last.res = "ok"

\* The rate a booking is priced at: unset rates count as 25 and 50
RateFor(provider, emergency) ==
    IF emergency
    THEN (IF provider.emergency_rate = NULL THEN DefaultEmergencyRate
          ELSE provider.emergency_rate)
    ELSE (IF provider.hourly_rate = NULL THEN DefaultHourlyRate
          ELSE provider.hourly_rate)

\* C7: a created booking's price is its provider's emergency rate when it
\* is an emergency and the hourly rate when it is not, and is never null.
C7_PriceFromProviderRate ==
    Created =>
        LET b == bookings[Len(bookings)]
        IN  /\ b.price = RateFor(service_providers[b.provider_id], b.emergency)
            /\ b.price # NULL

\* An emergency booking priced at a rate the provider changed beforehand
C7_Witness ==
    /\ Created
    /\ bookings[Len(bookings)].emergency
    /\ bookings[Len(bookings)].price = 80

\* C8: create_booking by a non-customer answers 403, by a customer for a
\* provider id no document has answers 404, and neither adds a booking; a
\* created booking is pending, is the caller's and carries the provider's
\* company_id.
C8_CreateChecksAndDefaults ==
    [][(last'.op = "create_booking" /\ last'.user # NULL) =>
          LET u == last'.user
              p == last'.target
          IN  /\ users[u].role # CUSTOMER =>
                     (last'.res = "403" /\ bookings' = bookings)
              /\ (users[u].role = CUSTOMER
                      /\ p \notin 1..Len(service_providers)) =>
                     (last'.res = "404" /\ bookings' = bookings)
              /\ last'.res = "ok" =>
                     /\ Len(bookings') = Len(bookings) + 1
                     /\ SubSeq(bookings', 1, Len(bookings)) = bookings
                     /\ bookings'[Len(bookings')].status = PENDING
                     /\ bookings'[Len(bookings')].customer_id = u
                     /\ bookings'[Len(bookings')].provider_id = p
                     /\ bookings'[Len(bookings')].company_id =
                            service_providers[p].company_id]_vars

\* A customer has booked an employee of a company
C8_Witness ==
    /\ Created
    /\ bookings[Len(bookings)].company_id # NULL
    /\ bookings[Len(bookings)].customer_id = last.user

\* Position of a status on the path pending -> ... -> completed
Rank(status) ==
    CASE status = PENDING -> 1
      [] status = CONFIRMED -> 2
      [] status = IN_PROGRESS -> 3
      [] status = COMPLETED -> 4
      [] status = CANCELLED -> 5

\* A move the booking state machine allows
Forward(old, new) ==
    \/ new # CANCELLED /\ old # CANCELLED /\ Rank(old) < Rank(new)
    \/ new = CANCELLED /\ old \notin {COMPLETED, CANCELLED}

\* C9: a booking's status only moves forward along pending -> confirmed ->
\* in_progress -> completed, or to cancelled from a state that is not
\* terminal; completed and cancelled bookings keep their status.
C9_StatusMovesForward ==
    [][\A b \in 1..Len(bookings) :
          bookings'[b].status # bookings[b].status =>
              Forward(bookings[b].status, bookings'[b].status)]_vars

\* C10: complete_profile sets the role once: a complete_profile call right
\* after a successful one by the same user leaves that user's role, the
\* companies and the providers as they were.
C10_RoleSetOnce ==
    [][( /\ last.op = "complete_profile" /\ last.res = "ok"
         /\ last'.op = "complete_profile" /\ last'.user = last.user )
       => ( /\ users'[last.user].role = users[last.user].role
            /\ companies' = companies
            /\ service_providers' = service_providers )]_vars

ProfileCompleted == last.op = "complete_profile" /\ last.res = "ok"

\* C11: one successful complete_profile call with role company adds exactly
\* one company, owned by the caller, and no provider; with role
\* freelance_fixer it adds exactly one provider, the caller's, with rates 25
\* and 50, and no company; no call adds both a company and a provider.
C11_OneRecordPerCall ==
    [][(last'.op = "complete_profile" /\ last'.res = "ok") =>
          LET u == last'.user
              role == users'[u].role
          IN  /\ role = COMPANY =>
                     /\ Len(companies') = Len(companies) + 1
                     /\ SubSeq(companies', 1, Len(companies)) = companies
                     /\ companies'[Len(companies')].owner_id = u
                     /\ service_providers' = service_providers
              /\ role = FREELANCE_FIXER =>
                     /\ Len(service_providers') = Len(service_providers) + 1
                     /\ SubSeq(service_providers', 1, Len(service_providers))
                            = service_providers
                     /\ service_providers'[Len(service_providers')].user_id = u
                     /\ service_providers'[Len(service_providers')].hourly_rate = 25
                     /\ service_providers'[Len(service_providers')].emergency_rate = 50
                     /\ companies' = companies
              /\ ~(companies' # companies
                     /\ service_providers' # service_providers)]_vars

\* A user has just become a company and owns the newest company
C11_Witness ==
    /\ ProfileCompleted
    /\ users[last.user].role = COMPANY
    /\ Len(companies) > 0
    /\ companies[Len(companies)].owner_id = last.user

\* The provider documents of a user, and the companies a user owns
ProvidersOf(u) ==
    {p \in 1..Len(service_providers) : service_providers[p].user_id = u}

CompaniesOf(u) == {c \in 1..Len(companies) : companies[c].owner_id = u}

\* C12: in every reachable state each user has at most one provider
\* document and owns at most one company.
C12_AtMostOneRecordPerUser ==
    \A u \in 1..Len(users) :
        /\ Cardinality(ProvidersOf(u)) <= 1
        /\ Cardinality(CompaniesOf(u)) <= 1

\* C13: in every reachable state every user with role employee_fixer has
\* company_id set to the id of an existing company.
C13_EmployeeHasCompany ==
    \A u \in 1..Len(users) :
        users[u].role = EMPLOYEE_FIXER =>
            users[u].company_id \in 1..Len(companies)

\* The two rates of a provider document
Rates(provider) == <<provider.hourly_rate, provider.emergency_rate>>

C15_EmailUnique ==
    \A i, j \in 1..Len(users) :
        users[i].email = users[j].email => i = j

\* The routes that depend on get_current_user
AuthenticatedOps ==
    {"complete_profile", "get_current_user_info", "update_provider_profile",
     "get_my_company", "add_employee", "create_booking", "get_bookings",
     "update_booking_status"}

\* C16: every authenticated operation called with a bearer token that
\* equals no stored session_token answers 401 and leaves users, companies,
\* service_providers and bookings as they were.
C16_BadTokenUnauthorized ==
    [][( /\ last'.op \in AuthenticatedOps
         /\ \A u \in 1..Len(users) : users[u].session_token # last'.token )
       => ( /\ last'.res = "401"
            /\ users' = users
            /\ companies' = companies
            /\ service_providers' = service_providers
            /\ bookings' = bookings )]_vars

\* A token that was never issued is refused while users are registered
C16_Witness ==
    /\ last.op \in AuthenticatedOps
    /\ last.res = "401"
    /\ Len(users) > 0
    /\ \A u \in 1..Len(users) : users[u].session_token # last.token

\* How many times a value occurs in a list
Count(list, value) == Cardinality({i \in 1..Len(list) : list[i] = value})

\* C17: a successful add_employee sets the target user's role to
\* employee_fixer and company_id to the owner's company, appends one
\* provider for the target with that company_id and the given rates and
\* categories, and leaves the target on the company's employees list exactly
\* once; a repeated call for an employee leaves the list as it was and
\* still appends a provider.
C17_AddEmployeeEffects ==
    [][(last'.op = "add_employee" /\ last'.res = "ok") =>
          LET e == last'.target
              c == FindOne(companies, "owner_id", last'.user)
              n == Len(service_providers)
          IN  /\ users'[e].role = EMPLOYEE_FIXER
              /\ users'[e].company_id = c
              /\ Len(service_providers') = n + 1
              /\ SubSeq(service_providers', 1, n) = service_providers
              /\ service_providers'[n + 1].user_id = e
              /\ service_providers'[n + 1].company_id = c
              /\ Rates(service_providers'[n + 1]) \in EmployeeRates
              /\ service_providers'[n + 1].service_categories
                     \in EmployeeCategories
              /\ Count(companies'[c].employees, e) = 1
              /\ e \in Range(companies[c].employees) =>
                     companies'[c].employees = companies[c].employees]_vars

\* add_employee has succeeded a second time for the same employee
C17_Witness ==
    /\ last.op = "add_employee"
    /\ last.res = "ok"
    /\ Cardinality(ProvidersOf(last.target)) = 2
    /\ \A p \in ProvidersOf(last.target) :
           service_providers[p].company_id # NULL

\* The fields of a booking that are fixed when it is created
Fixed(booking) ==
    <<booking.price, booking.customer_id, booking.provider_id,
      booking.company_id>>

\* C18: in every step each existing booking stays in the store with its
\* price, customer_id, provider_id and company_id as they were (also when
\* the provider's rates change), and an update_booking_status step changes
\* nothing of a booking but its status.
C18_BookingFieldsFixed ==
    [][ /\ Len(bookings') >= Len(bookings)
        /\ \A b \in 1..Len(bookings) :
              Fixed(bookings'[b]) = Fixed(bookings[b])
        /\ last'.op = "update_booking_status" =>
              /\ Len(bookings') = Len(bookings)
              /\ \A b \in 1..Len(bookings) :
                    [bookings'[b] EXCEPT !.status = bookings[b].status]
                        = bookings[b] ]_vars

\* A confirmed booking whose provider has changed rates since it was priced
C18_Witness ==
    \E b \in 1..Len(bookings) :
        /\ bookings[b].status = CONFIRMED
        /\ ~bookings[b].emergency
        /\ bookings[b].price
               # service_providers[bookings[b].provider_id].hourly_rate
====
